---- MODULE Spec2Model ----
(***************************************************************************)
(* Task orchestration of excel-translator (web_translator.py): the TASKS   *)
(* registry guarded by TASKS_LOCK, the worker thread _run_task, the        *)
(* retention sweeper, the cancel handler and the SSE progress stream.      *)
(*                                                                         *)
(* Every block of code that runs under TASKS_LOCK (_safe_update,           *)
(* _get_state, the pop of _cleanup, the insert of start_background_task)   *)
(* is one atomic step.  Thread-local work between two lock acquisitions is *)
(* folded into the step that ends with the next acquisition.  time.time()  *)
(* is abstracted to the token Now; time.sleep is an arbitrary delay.       *)
(* uuid4 identifiers are taken fresh, numbered in order of submission.     *)
(***************************************************************************)
EXTENDS Integers, Sequences, FiniteSets, TLC

\* ---------------------------------------------------------------- bounds
MaxTasks == 2
SoloTasks == 1
MaxRows == 2
MaxHandlers == 1
MaxPolls == 2

Ids == 1..MaxTasks
Names == {"a.xlsx", "b.xlsx"}

VARIABLES
    TASKS,      \* the registry dict: task id -> ProgressState dict
    nextId,     \* number of the next submission (fresh uuid, fresh mkdtemp)
    worker,     \* per id: the _run_task thread (pc, locals)
    sweeper,    \* per id: number of _cleanup threads sleeping / finished
    dirs,       \* scratch directories that exist on disk
    outputs,    \* files in tempfile.gettempdir(): output name -> writer id
    pending,    \* per id: cancel handlers between _get_state and _safe_update
    shadow,     \* the registry as it evolves without repeated cancel requests
    stream      \* one SSE progress stream: target, events sent, closed

vars == <<TASKS, nextId, worker, sweeper, dirs, outputs, pending, shadow, stream>>

\* ------------------------------------------------------------ dictionaries
Now == "ts"
None == "None"

EmptyDict == [k \in {} |-> None]

\* dict.get(key): the value, or None when the key is missing
Get(st, key) == IF key \in DOMAIN st THEN st[key] ELSE None

\* dict.update(kv): keys of kv overwrite, all other keys stay
DictUpdate(st, kv) == kv @@ st

\* TASKS without the entry of t (dict.pop(t, None))
Pop(tasks, t) == [u \in (DOMAIN tasks) \ {t} |-> tasks[u]]

\* TASKS with the entry of t set to st (TASKS[t] = st)
Put(tasks, t, st) == [u \in (DOMAIN tasks) \cup {t} |-> IF u = t THEN st ELSE tasks[u]]

\* faulty variant: an update that stores the fields under an unknown id as well
safe_update_Upsert(tasks, t, kv) ==
    Put(tasks, t, DictUpdate(IF t \in DOMAIN tasks THEN tasks[t] ELSE EmptyDict, kv))

\* _safe_update: merge kv into the entry when there is one, else nothing
safe_update(tasks, t, kv) ==
    IF t \in DOMAIN tasks
    THEN Put(tasks, t, DictUpdate(tasks[t], kv))
    ELSE tasks

\* _get_state: a copy of the entry, or {} when the id is unknown
get_state(tasks, t) == IF t \in DOMAIN tasks THEN tasks[t] ELSE EmptyDict

Terminal == {"done", "error", "canceled"}

IsTerminal(st) == Get(st, "status") \in Terminal

\* ---------------------------------------------------------------- messages
MsgReading == "reading file..."
MsgNothing == "nothing to translate"
MsgCanceled == "canceled"
MsgCanceling == "canceling..."
MsgTranslating(idx, total) == "translating(" \o ToString(idx) \o "/" \o ToString(total) \o ")"
MsgDone(total) == "done, rows processed: " \o ToString(total)
MsgNotFound == "task not found"

LoadErrors == {"empty sheet", "no Title column"}
RowErrors == {"illegal character"}
SaveErrors == {"save failed"}

\* os.path.splitext(os.path.basename(file_path))[0] + "_translated.xlsx"
Stem(name) == SubSeq(name, 1, Len(name) - 5)
OutputName(name) == Stem(name) \o "_translated.xlsx"
OutNames == {OutputName(n) : n \in Names}

\* ------------------------------------------------------------------- Init
NoWorker == [pc |-> "none", idx |-> 0, total |-> 0, file |-> None]

Init ==
    /\ TASKS = EmptyDict
    /\ nextId = 1
    /\ worker = [t \in Ids |-> NoWorker]
    /\ sweeper = [t \in Ids |-> [sleeping |-> 0, removed |-> 0]]
    /\ dirs = {}
    /\ outputs = [o \in OutNames |-> 0]
    /\ pending = [t \in Ids |-> [first |-> 0, repeat |-> 0]]
    /\ shadow = EmptyDict
    /\ stream = [task |-> 0, events |-> <<>>, closed |-> FALSE]

\* ------------------------------------------------------------- submission
\* start_background_task: the entry stored under the fresh id
InitialState(name, dir) ==
    [status |-> "idle", percent |-> 0, message |-> "", filename |-> name,
     total |-> 0, current |-> 0, cancel_requested |-> FALSE, tmp_dir |-> dir]

\* upload_file, file.save raises: the scratch directory exists, no task is made
\* (limit: the number of submissions the run accepts)
UploadSaveFails(limit) ==
    /\ nextId <= limit
    /\ dirs' = dirs \cup {nextId}
    /\ nextId' = nextId + 1
    /\ UNCHANGED <<TASKS, worker, sweeper, outputs, pending, shadow, stream>>

\* upload_file -> start_background_task; started = FALSE when Thread.start raises
\* after the entry was stored (no worker ever runs for it)
Upload(limit, name, started) ==
    /\ nextId <= limit
    /\ dirs' = dirs \cup {nextId}
    /\ TASKS' = Put(TASKS, nextId, InitialState(name, nextId))
    /\ shadow' = Put(shadow, nextId, InitialState(name, nextId))
    /\ worker' = [worker EXCEPT ![nextId] =
                    IF started THEN [pc |-> "start", idx |-> 0, total |-> 0, file |-> name]
                    ELSE NoWorker]
    /\ nextId' = nextId + 1
    /\ UNCHANGED <<sweeper, outputs, pending, stream>>

\* ----------------------------------------------------------------- worker
\* the registry update of one worker step, applied to TASKS and to shadow
WorkerUpdate(t, kv) ==
    /\ TASKS' = safe_update(TASKS, t, kv)
    /\ shadow' = safe_update(shadow, t, kv)

Goto(t, pc) == worker' = [worker EXCEPT ![t].pc = pc]

RunningKV == [status |-> "running", message |-> MsgReading, percent |-> 0, started_at |-> Now]

\* line 54
W_Begin(t) ==
    /\ worker[t].pc = "start"
    /\ WorkerUpdate(t, RunningKV)
    /\ Goto(t, "load")
    /\ UNCHANGED <<nextId, sweeper, dirs, outputs, pending, stream>>

\* lines 56-80: the workbook loads, n rows have a non-empty title
W_Prepare(t, n) ==
    /\ worker[t].pc = "load"
    /\ WorkerUpdate(t, [total |-> n, current |-> 0])
    /\ worker' = [worker EXCEPT ![t].total = n, ![t].idx = 1,
                                ![t].pc = IF n = 0 THEN "empty" ELSE "check"]
    /\ UNCHANGED <<nextId, sweeper, dirs, outputs, pending, stream>>

\* faulty variant: an empty workbook is finished without setting percent
EmptyKV_NoPercent == [status |-> "done", message |-> MsgNothing]

EmptyKV == [status |-> "done", percent |-> 100, message |-> MsgNothing]

\* faulty variant: the return of the empty case leaves without the finally block
W_Empty_SkipsFinally(t) ==
    /\ worker[t].pc = "empty"
    /\ WorkerUpdate(t, EmptyKV)
    /\ Goto(t, "exit")
    /\ UNCHANGED <<nextId, sweeper, dirs, outputs, pending, stream>>

\* lines 82-84
W_Empty(t) ==
    /\ worker[t].pc = "empty"
    /\ WorkerUpdate(t, EmptyKV)
    /\ Goto(t, "finally")
    /\ UNCHANGED <<nextId, sweeper, dirs, outputs, pending, stream>>

\* faulty variant: a worker that never sees the flag
CancelRequested_Never(st) == FALSE

\* truth value of st.get("cancel_requested")
CancelRequested(st) == "cancel_requested" \in DOMAIN st /\ st["cancel_requested"]

\* faulty variant: the flag is looked at before the first row only
W_Check_FirstRowOnly(t) ==
    /\ worker[t].pc = "check"
    /\ Goto(t, IF worker[t].idx = 1 /\ CancelRequested(get_state(TASKS, t))
               THEN "cancel" ELSE "row")
    /\ UNCHANGED <<TASKS, shadow, nextId, sweeper, dirs, outputs, pending, stream>>

\* line 88: the cancellation check at the start of a row
W_Check(t) ==
    /\ worker[t].pc = "check"
    /\ Goto(t, IF CancelRequested(get_state(TASKS, t)) THEN "cancel" ELSE "row")
    /\ UNCHANGED <<TASKS, shadow, nextId, sweeper, dirs, outputs, pending, stream>>

\* faulty variant: the flag is cleared when the cancellation is carried out
CanceledKV_ClearsFlag ==
    [status |-> "canceled", message |-> MsgCanceled, cancel_requested |-> FALSE]

CanceledKV == [status |-> "canceled", message |-> MsgCanceled]

\* lines 89-90
W_Cancel(t) ==
    /\ worker[t].pc = "cancel"
    /\ WorkerUpdate(t, CanceledKV)
    /\ Goto(t, "finally")
    /\ UNCHANGED <<nextId, sweeper, dirs, outputs, pending, stream>>

\* int(idx * 100 / total)
Percent(idx, total) == (idx * 100) \div total

\* lines 96-97: int((total - idx) / (idx / elapsed)), with the wall-clock
\* time elapsed taken at the nominal pace of one second per row (elapsed = idx)
Eta(idx, total) == ((total - idx) * idx) \div idx

\* faulty variant: the progress fields are written in two separate updates,
\* the first of which is given here
ProgressKV_Torn(idx, total) ==
    [current |-> idx, message |-> MsgTranslating(idx, total)]

ProgressKV(idx, total) ==
    [current |-> idx, percent |-> Percent(idx, total), eta_seconds |-> Eta(idx, total),
     message |-> MsgTranslating(idx, total)]

\* lines 92-104: one row translated and reported
W_Row(t) ==
    /\ worker[t].pc = "row"
    /\ WorkerUpdate(t, ProgressKV(worker[t].idx, worker[t].total))
    /\ worker' = [worker EXCEPT
                    ![t].pc = IF worker[t].idx = worker[t].total THEN "save" ELSE "check",
                    ![t].idx = IF worker[t].idx = worker[t].total THEN @ ELSE @ + 1]
    /\ UNCHANGED <<nextId, sweeper, dirs, outputs, pending, stream>>

\* lines 106-108: wb.save into the shared temporary directory
W_Save(t) ==
    /\ worker[t].pc = "save"
    /\ outputs' = [outputs EXCEPT ![OutputName(worker[t].file)] = t]
    /\ Goto(t, "done")
    /\ UNCHANGED <<TASKS, shadow, nextId, sweeper, dirs, pending, stream>>

\* faulty variant: the final update forgets the download reference
DoneKV_NoDownload(total, name) ==
    [status |-> "done", percent |-> 100, eta_seconds |-> 0, message |-> MsgDone(total),
     finished_at |-> Now]

DoneKV(total, name) ==
    [status |-> "done", percent |-> 100, eta_seconds |-> 0, message |-> MsgDone(total),
     download_filename |-> OutputName(name), finished_at |-> Now]

\* lines 110-117
W_Done(t) ==
    /\ worker[t].pc = "done"
    /\ WorkerUpdate(t, DoneKV(worker[t].total, worker[t].file))
    /\ Goto(t, "finally")
    /\ UNCHANGED <<nextId, sweeper, dirs, outputs, pending, stream>>

\* the exceptions each part of the try block can raise
Raises(pc) ==
    CASE pc = "load" -> LoadErrors
      [] pc = "row" -> RowErrors
      [] pc = "save" -> SaveErrors
      [] OTHER -> {}

\* faulty variant: the failure is recorded without its message
ErrorKV_NoMessage(e) == [status |-> "error", finished_at |-> Now]

ErrorKV(e) == [status |-> "error", message |-> e, finished_at |-> Now]

\* lines 118-119: except Exception as e
W_Raise(t, e) ==
    /\ e \in Raises(worker[t].pc)
    /\ WorkerUpdate(t, ErrorKV(e))
    /\ Goto(t, "finally")
    /\ UNCHANGED <<nextId, sweeper, dirs, outputs, pending, stream>>

\* lines 120-126: finally, the scratch directory is removed when it exists
W_Finally(t) ==
    /\ worker[t].pc = "finally"
    /\ dirs' = dirs \ {t}
    /\ Goto(t, "schedule")
    /\ UNCHANGED <<TASKS, shadow, nextId, sweeper, outputs, pending, stream>>

\* line 127 and lines 46-51: the _cleanup thread is started and sleeps
W_Schedule(t) ==
    /\ worker[t].pc = "schedule"
    /\ sweeper' = [sweeper EXCEPT ![t].sleeping = @ + 1]
    /\ Goto(t, "exit")
    /\ UNCHANGED <<TASKS, shadow, nextId, dirs, outputs, pending, stream>>

\* faulty variant: a sweeper that does not wait to be scheduled
Sweep_Eager(t) ==
    /\ t \in DOMAIN TASKS
    /\ TASKS' = Pop(TASKS, t)
    /\ shadow' = Pop(shadow, t)
    /\ sweeper' = [sweeper EXCEPT ![t].removed = @ + 1]
    /\ UNCHANGED <<nextId, worker, dirs, outputs, pending, stream>>

\* lines 48-50: the retention window has elapsed, the entry is popped
Sweep(t) ==
    /\ sweeper[t].sleeping > 0
    /\ TASKS' = Pop(TASKS, t)
    /\ shadow' = Pop(shadow, t)
    /\ sweeper' = [sweeper EXCEPT ![t].sleeping = @ - 1, ![t].removed = @ + 1]
    /\ UNCHANGED <<nextId, worker, dirs, outputs, pending, stream>>

\* ---------------------------------------------------------- cancel handler
InFlightAll(p) == LET n[k \in 0..MaxTasks] ==
                        IF k = 0 THEN 0 ELSE n[k - 1] + p[k].first + p[k].repeat
                  IN n[MaxTasks]

\* faulty variant: the handler marks the task canceled itself
CancelKV_SetsStatus ==
    [cancel_requested |-> TRUE, message |-> MsgCanceling, status |-> "canceled"]

CancelKV == [cancel_requested |-> TRUE, message |-> MsgCanceling]

\* faulty variant: the early return misses the canceled status
CancelResponse_MissesCanceled(st) ==
    IF st = EmptyDict THEN 404
    ELSE IF Get(st, "status") \in {"done", "error"} THEN 200
    ELSE 202

\* task_cancel, lines 207-213: the status code returned for snapshot st
CancelResponse(st) ==
    IF st = EmptyDict THEN 404
    ELSE IF IsTerminal(st) THEN 200
    ELSE 202

\* task_cancel, lines 207-211: the snapshot and the two early returns (404, 200);
\* a request that passes them waits for the lock of its _safe_update.  It is
\* counted as "repeat" when its snapshot already shows cancel_requested, that
\* is when it repeats a request that was already carried out.
CancelRead(t) ==
    LET st == get_state(TASKS, t) IN
    /\ CancelResponse(st) = 202
    /\ InFlightAll(pending) < MaxHandlers
    /\ pending' = [pending EXCEPT
                     ![t].first = IF CancelRequested(st) THEN @ ELSE @ + 1,
                     ![t].repeat = IF CancelRequested(st) THEN @ + 1 ELSE @]
    /\ UNCHANGED <<TASKS, shadow, nextId, worker, sweeper, dirs, outputs, stream>>

\* task_cancel, lines 212-213: the update, then the 202 response
CancelWrite(t, kind) ==
    /\ pending[t][kind] > 0
    /\ pending' = [pending EXCEPT ![t][kind] = @ - 1]
    /\ TASKS' = safe_update(TASKS, t, CancelKV)
    /\ shadow' = IF kind = "first" THEN safe_update(shadow, t, CancelKV) ELSE shadow
    /\ UNCHANGED <<nextId, worker, sweeper, dirs, outputs, stream>>

\* ------------------------------------------------------------ SSE progress
DownloadUrl(st) ==
    IF "download_filename" \in DOMAIN st THEN "/download/" \o st["download_filename"] ELSE None

\* lines 151 and 153-165: the event built from one snapshot
Event(t, state) ==
    IF state = EmptyDict
    THEN [event |-> "message",
          data |-> [task_id |-> t, status |-> "error", message |-> MsgNotFound]]
    ELSE [event |-> "progress",
          data |-> [task_id |-> t, status |-> Get(state, "status"),
                    percent |-> Get(state, "percent"),
                    eta_seconds |-> Get(state, "eta_seconds"),
                    message |-> Get(state, "message"),
                    download_url |-> DownloadUrl(state),
                    filename |-> Get(state, "filename"),
                    started_at |-> Get(state, "started_at"),
                    finished_at |-> Get(state, "finished_at"),
                    duration_seconds |-> Get(state, "duration_seconds")]]

\* faulty variant: the loop goes on after a missing task
Breaks_OnlyTerminal(state) == IsTerminal(state)

\* lines 150-152 and 166-167: the generator stops after this event
Breaks(state) == state = EmptyDict \/ IsTerminal(state)

\* faulty variant: the generator never stops after an event
Poll_KeepsOpen(t) ==
    LET state == get_state(TASKS, t) IN
    stream' = [task |-> t,
               events |-> Append(stream.events, Event(t, state)),
               closed |-> FALSE]

\* one round of the while loop of event_stream
Poll(t) ==
    LET state == get_state(TASKS, t) IN
    stream' = [task |-> t,
               events |-> Append(stream.events, Event(t, state)),
               closed |-> Breaks(state)]

\* sse_progress: a client connects, the generator runs its first round
StreamConnect(t) ==
    /\ stream.task = 0
    /\ Poll(t)
    /\ UNCHANGED <<TASKS, shadow, nextId, worker, sweeper, dirs, outputs, pending>>

\* a later round, after time.sleep(0.2)
StreamPoll ==
    /\ stream.task # 0
    /\ ~stream.closed
    /\ Len(stream.events) < MaxPolls
    /\ Poll(stream.task)
    /\ UNCHANGED <<TASKS, shadow, nextId, worker, sweeper, dirs, outputs, pending>>

\* --------------------------------------------------------------- download
\* download_file, lines 215-220: the file stored under the name in the shared
\* temporary directory, given by the id of the task that wrote it, or 404
download_file(filename) ==
    IF outputs[filename] = 0 THEN 404 ELSE outputs[filename]

\* ------------------------------------------------------------------- Next
WorkerStep(t) ==
    \/ W_Begin(t)
    \/ \E n \in 0..MaxRows : W_Prepare(t, n)
    \/ W_Empty(t)
    \/ W_Check(t)
    \/ W_Cancel(t)
    \/ W_Row(t)
    \/ W_Save(t)
    \/ W_Done(t)
    \/ \E e \in LoadErrors \cup RowErrors \cup SaveErrors : W_Raise(t, e)
    \/ W_Finally(t)
    \/ W_Schedule(t)

\* the registry, the workers, the sweeper and the cancel handler
Core(limit) ==
    \/ UploadSaveFails(limit)
    \/ \E name \in Names, started \in BOOLEAN : Upload(limit, name, started)
    \/ \E t \in Ids : WorkerStep(t)
    \/ \E t \in Ids : Sweep(t)
    \/ \E t \in Ids : CancelRead(t)
    \/ \E t \in Ids, kind \in {"first", "repeat"} : CancelWrite(t, kind)

Streaming ==
    \/ \E t \in Ids : StreamConnect(t)
    \/ StreamPoll

\* one submission with its worker, sweeper and cancel requests
Next == Core(SoloTasks)

Spec == Init /\ [][Next]_vars

\* one submission watched by a progress stream
NextStream == Core(SoloTasks) \/ Streaming

SpecStream == Init /\ [][NextStream]_vars

\* concurrent submissions
NextPair == Core(MaxTasks)

SpecPair == Init /\ [][NextPair]_vars

\* ------------------------------------------------------------ fair runs
\* Every started thread keeps running: the worker takes its next step, a
\* cancel handler that passed its checks performs its update, a sleeping
\* _cleanup thread wakes up.
Fairness ==
    /\ \A t \in Ids : WF_vars(WorkerStep(t))
    /\ \A t \in Ids : WF_vars(Sweep(t))
    /\ \A t \in Ids : WF_vars(CancelWrite(t, "first") \/ CancelWrite(t, "repeat"))

FairSpec == Init /\ [][Next]_vars /\ Fairness

\* ------------------------------------------------------------ vocabulary
Present(t) == t \in DOMAIN TASKS
StatusOf(t) == IF Present(t) THEN TASKS[t]["status"] ELSE "absent"
Has(t, key) == Present(t) /\ key \in DOMAIN TASKS[t]
Finished(t) == StatusOf(t) \in {"done", "error", "canceled"}
Latched(t) == Present(t) /\ TASKS[t]["cancel_requested"]
Waiting(t) == pending[t].first + pending[t].repeat

\* ---------------------------------------------------------------- claims

\* C1: once a task's status is done, error or canceled, no field of its
\* ProgressState changes afterwards; the only later change is its removal.
CE_C1 ==
    [][\A t \in Ids :
         Finished(t) => (t \notin DOMAIN TASKS' \/ TASKS'[t] = TASKS[t])]_vars

\* C3: a task is created idle and its status only changes idle -> running,
\* running -> done, running -> error or running -> canceled.
StatusAfter(t) == IF t \in DOMAIN TASKS' THEN TASKS'[t]["status"] ELSE "absent"

Thm_C3 ==
    [][\A t \in Ids :
         \/ StatusAfter(t) = StatusOf(t)
         \/ StatusAfter(t) = "absent"
         \/ StatusOf(t) = "absent" /\ StatusAfter(t) = "idle"
         \/ StatusOf(t) = "idle" /\ StatusAfter(t) = "running"
         \/ StatusOf(t) = "running" /\ StatusAfter(t) \in {"done", "error", "canceled"}]_vars

\* a task that went idle -> running -> canceled after having reported a row
Wit_C3 == \E t \in Ids : StatusOf(t) = "canceled" /\ TASKS[t]["current"] > 0

\* C4: whenever a task's status is terminal, finished_at is set.
CE_C4 == \A t \in Ids : Finished(t) => Has(t, "finished_at")

\* C5: whenever a task's status is done, its percent is 100 and its
\* download_filename is set.
CE_C5 ==
    \A t \in Ids :
        StatusOf(t) = "done" => TASKS[t]["percent"] = 100 /\ Has(t, "download_filename")

\* C5 amended: whenever a task's status is done its percent is 100, and its
\* download_filename is set (to the output name of its own file) exactly
\* when it had rows to translate (total > 0).
Thm_C5 ==
    \A t \in Ids :
        StatusOf(t) = "done" =>
            /\ TASKS[t]["percent"] = 100
            /\ Has(t, "download_filename") <=> TASKS[t]["total"] > 0
            /\ Has(t, "download_filename") =>
                 TASKS[t]["download_filename"] = OutputName(TASKS[t]["filename"])

Wit_C5 ==
    \E t \in Ids :
        /\ StatusOf(t) = "done"
        /\ TASKS[t]["current"] = MaxRows
        /\ Has(t, "download_filename")

\* C2: if a cancellation request is made while the task is running with
\* current < total, the task eventually reaches canceled (not done) and never
\* has a download reference set.  (Stated here: from such a request on, the
\* task is never done and never has a download reference.)
Asked(t) == StatusOf(t) = "running" /\ TASKS[t]["current"] < TASKS[t]["total"] /\ Latched(t)

CE_C2 ==
    \A t \in Ids :
        [](Asked(t) => [](StatusOf(t) # "done" /\ ~Has(t, "download_filename")))

\* C2 amended: such a task eventually reaches a terminal status; it reaches
\* canceled whenever the worker comes to another cancellation check (the
\* start of a row) with the request in effect, and a canceled task never has
\* a download reference.  A request that takes effect after the check of the
\* last row does not stop the worker, which ends done or error.
Thm_C2 ==
    /\ \A t \in Ids : Asked(t) ~> Finished(t)
    /\ \A t \in Ids : (Latched(t) /\ worker[t].pc = "check") ~> (StatusOf(t) = "canceled")
    /\ [](\A t \in Ids : StatusOf(t) = "canceled" => ~Has(t, "download_filename"))

\* the request is in effect between two rows
Wit_C2 ==
    \E t \in Ids : Asked(t) /\ worker[t].pc = "check" /\ TASKS[t]["current"] = 1

\* C6: a repeated cancellation request has no effect of its own: once the
\* task is terminal and no request is in flight, its ProgressState equals the
\* one it has when the repeated requests are left out.
CE_C6 ==
    \A t \in Ids : (Finished(t) /\ Waiting(t) = 0) => TASKS[t] = shadow[t]

\* C7: a cancellation request on a task with a terminal status returns 200,
\* one on an unknown id returns 404, and neither goes on to an update.
Thm_C7 ==
    /\ [](\A t \in Ids :
            /\ Finished(t) => CancelResponse(get_state(TASKS, t)) = 200
            /\ ~Present(t) => CancelResponse(get_state(TASKS, t)) = 404)
    /\ [][\A t \in Ids :
            (Finished(t) \/ ~Present(t)) =>
                /\ pending'[t].first <= pending[t].first
                /\ pending'[t].repeat <= pending[t].repeat]_vars

\* a finished task and an id that was never used, no request in flight
Wit_C7 ==
    \E t, u \in Ids :
        /\ StatusOf(t) = "done" /\ Waiting(t) = 0
        /\ ~Present(u) /\ sweeper[u].removed = 0 /\ Waiting(u) = 0

\* C8: cancel_requested is false at creation and, once true, stays true for
\* as long as the entry exists.
Thm_C8 ==
    [][\A t \in Ids :
         /\ (~Present(t) /\ t \in DOMAIN TASKS') => ~TASKS'[t]["cancel_requested"]
         /\ (Latched(t) /\ t \in DOMAIN TASKS') => TASKS'[t]["cancel_requested"]]_vars

\* the latch is still set after the worker carried the cancellation out
Wit_C8 == \E t \in Ids : Latched(t) /\ StatusOf(t) = "canceled" /\ Waiting(t) = 0

\* C9: after the sweeper removed a task its id stays absent: a snapshot is
\* empty, an update changes nothing, a cancellation request returns 404.
Evicted(t) == sweeper[t].removed > 0

Thm_C9 ==
    \A t \in Ids :
        Evicted(t) =>
            /\ ~Present(t)
            /\ get_state(TASKS, t) = EmptyDict
            /\ safe_update(TASKS, t, CancelKV) = TASKS
            /\ CancelResponse(get_state(TASKS, t)) = 404

\* a cancel handler's update is still to come after the eviction
Wit_C9 == \E t \in Ids : Evicted(t) /\ pending[t].first > 0

\* C10: a progress stream emits snapshots with non-terminal status, then
\* exactly one final event, and closes; the final event is a snapshot with
\* terminal status or "task not found", and "task not found" is only ever the
\* very first event of a stream.
IsNotFound(ev) == ev["event"] = "message" /\ ev["data"]["message"] = MsgNotFound
IsSnapshot(ev) == ev["event"] = "progress"
IsFinal(ev) == IsNotFound(ev) \/ ev["data"]["status"] \in {"done", "error", "canceled"}

StreamShape ==
    LET ev == stream.events
        n == Len(ev)
    IN /\ \A i \in 1..n : IsNotFound(ev[i]) \/ IsSnapshot(ev[i])
       /\ \A i \in 1..(n - 1) : ~IsFinal(ev[i])
       /\ stream.closed <=> (n > 0 /\ IsFinal(ev[n]))

CE_C10 ==
    /\ StreamShape
    /\ \A i \in 1..Len(stream.events) : IsNotFound(stream.events[i]) => i = 1

\* C10 amended: a progress stream emits snapshots with non-terminal status
\* until its first final event, closes with that event and emits nothing
\* after it; the final event is a snapshot with terminal status or "task not
\* found", and "task not found" is emitted by the first poll that finds the
\* id missing from the registry: the first poll of the stream, or a later one
\* when the task was evicted between two polls.
Thm_C10 ==
    /\ [](StreamShape)
    /\ [][/\ stream.closed => stream' = stream
          /\ stream' # stream =>
               (IsNotFound(stream'.events[Len(stream'.events)]) <=> stream'.task \notin DOMAIN TASKS)]_vars

\* the stream saw the task running and then found it evicted
Wit_C10 ==
    /\ stream.closed
    /\ Len(stream.events) = 2
    /\ stream.events[1]["data"]["status"] = "running"
    /\ IsNotFound(stream.events[2])

\* C11: a progress stream opened on an existing task that reaches a terminal
\* status between the first and the second poll emits a snapshot with status
\* running, then exactly one terminal snapshot, and closes.
BetweenPolls ==
    /\ Len(stream.events) >= 2
    /\ IsSnapshot(stream.events[1]) /\ ~IsFinal(stream.events[1])
    /\ IsSnapshot(stream.events[2]) /\ IsFinal(stream.events[2])

CE_C11 ==
    BetweenPolls =>
        /\ stream.events[1]["data"]["status"] = "running"
        /\ Len(stream.events) = 2
        /\ stream.closed

\* C11 amended: such a stream emits one snapshot with a non-terminal status,
\* which is running when the worker had begun before the first poll and idle
\* (no started_at) when it had not, then exactly one terminal snapshot, and
\* closes; nothing is emitted after the terminal snapshot.
Thm_C11 ==
    /\ [](BetweenPolls =>
            /\ stream.events[1]["data"]["status"] \in {"idle", "running"}
            /\ stream.events[1]["data"]["status"] = "idle"
                 <=> stream.events[1]["data"]["started_at"] = None
            /\ Len(stream.events) = 2
            /\ stream.closed)
    /\ [][BetweenPolls => stream' = stream]_vars

\* the stream saw the task running and then done with its download link
Wit_C11 ==
    /\ BetweenPolls
    /\ stream.closed
    /\ stream.events[1]["data"]["status"] = "running"
    /\ stream.events[2]["data"]["status"] = "done"
    /\ stream.events[2]["data"]["download_url"] # None

\* C12: when the worker raises at any point of its run (loading, column
\* lookup, row processing, saving), the task becomes error with the failure
\* message recorded, the worker thread goes on to its finally block, and the
\* ProgressState of every other task is left as it was.
Raised(t) ==
    /\ worker[t].pc \in {"load", "row", "save"}
    /\ worker'[t] # worker[t]
    /\ worker'[t].pc \notin {"empty", "check", "save", "done"}

Thm_C12 ==
    [][\A t \in Ids :
         Raised(t) =>
            /\ StatusOf(t) = "running"
            /\ StatusAfter(t) = "error"
            /\ TASKS'[t]["message"] \in Raises(worker[t].pc)
            /\ TASKS'[t]["finished_at"] = Now
            /\ worker'[t].pc = "finally"
            /\ \A u \in Ids \ {t} :
                 /\ worker'[u] = worker[u]
                 /\ get_state(TASKS', u) = get_state(TASKS, u)]_vars

\* a task failed on a row while another one goes on translating
Wit_C12 ==
    \E t, u \in Ids :
        /\ StatusOf(t) = "error" /\ TASKS[t]["message"] \in RowErrors
        /\ StatusOf(u) = "running" /\ TASKS[u]["current"] > 0

\* C13: for every number N >= 0 of eligible rows, a task whose worker never
\* fails and for which no cancellation is requested eventually reaches done
\* with current = total = N and percent = 100 (N = 0 included).  A failure
\* shows as status error, a cancellation request as the cancel_requested
\* latch: a started task leads to done, unless one of the two comes first.
DoneWith(t, n) ==
    /\ StatusOf(t) = "done"
    /\ TASKS[t]["current"] = n
    /\ TASKS[t]["total"] = n
    /\ TASKS[t]["percent"] = 100

Thm_C13 ==
    /\ \A t \in Ids :
         (worker[t].pc = "start") ~> (StatusOf(t) \in {"done", "error"} \/ Latched(t))
    /\ \A t \in Ids : \A n \in 0..MaxRows :
         (StatusOf(t) = "running" /\ worker[t].pc \in {"empty", "check"} /\ worker[t].total = n)
            ~> (DoneWith(t, n) \/ StatusOf(t) = "error" \/ Latched(t))
    /\ [](\A t \in Ids : StatusOf(t) = "done" => DoneWith(t, worker[t].total))

\* an empty workbook is done without a failure and without a request
Wit_C13 == \E t \in Ids : DoneWith(t, 0) /\ ~Latched(t) /\ worker[t].pc = "exit"

\* C14: retrieving the download reference of a task that reached done returns
\* the output artifact produced by that task's own worker, never the one of
\* another task, also for two tasks submitted with the same file name.
CE_C14 ==
    \A t \in Ids :
        (StatusOf(t) = "done" /\ Has(t, "download_filename"))
            => download_file(TASKS[t]["download_filename"]) = t

\* C15: for every task whose worker was started, on every exit path of the
\* worker (done with rows, done with total = 0, canceled, error) the scratch
\* directory is released exactly once and the retention sweeper is scheduled
\* exactly once, both only after the terminal status was written.
Scheduled(t) == sweeper[t].sleeping + sweeper[t].removed

Thm_C15 ==
    /\ [](\A t \in Ids : Scheduled(t) = IF worker[t].pc = "exit" THEN 1 ELSE 0)
    /\ [](\A t \in Ids : worker[t].pc \in {"schedule", "exit"} => t \notin dirs)
    /\ [][\A t \in Ids :
            /\ (t \in dirs /\ t \notin dirs') =>
                  Finished(t) /\ worker[t].pc = "finally" /\ Scheduled(t) = 0
            /\ (t \notin dirs /\ t \in dirs') => nextId = t
            /\ sweeper'[t].sleeping + sweeper'[t].removed # Scheduled(t) =>
                  Finished(t) /\ worker[t].pc = "schedule" /\ t \notin dirs]_vars
    /\ \A t \in Ids : (worker[t].pc \notin {"none", "exit"}) ~> (worker[t].pc = "exit")

\* a canceled worker has left: directory gone, one sweeper sleeping
Wit_C15 ==
    \E t \in Ids :
        /\ worker[t].pc = "exit" /\ StatusOf(t) = "canceled"
        /\ t \notin dirs /\ sweeper[t].sleeping = 1

\* C16: a task entry is never removed from the registry while its status is
\* idle or running: the sweeper removes an id only after that task's status
\* is terminal, and a sweeper only ever sleeps for a terminal task.
Thm_C16 ==
    /\ [][\A t \in Ids : (Present(t) /\ t \notin DOMAIN TASKS') => Finished(t)]_vars
    /\ [](\A t \in Ids : sweeper[t].sleeping > 0 => Finished(t))

\* the entry of a task that translated all its rows has been removed
Wit_C16 ==
    \E t \in Ids :
        /\ ~Present(t) /\ sweeper[t].removed = 1
        /\ worker[t].pc = "exit" /\ worker[t].idx = MaxRows

\* C17: from the moment cancel_requested is true on a task, the worker applies
\* at most one further progress update: current never exceeds the value it
\* had at that moment by more than 1, and it stops changing once the worker
\* has come to its next cancellation check.
Thm_C17 ==
    /\ \A t \in Ids : \A k \in 0..MaxRows :
         []((Latched(t) /\ TASKS[t]["current"] = k)
              => [](Present(t) => TASKS[t]["current"] <= k + 1))
    /\ \A t \in Ids : \A k \in 0..MaxRows :
         []((Latched(t) /\ TASKS[t]["current"] = k /\ worker[t].pc # "row")
              => [](Present(t) => TASKS[t]["current"] = k))

\* the request came during the first of several rows: that row was still
\* reported, the next one was not started
Wit_C17 ==
    \E t \in Ids :
        /\ StatusOf(t) = "canceled" /\ Waiting(t) = 0
        /\ TASKS[t]["current"] = 1 /\ TASKS[t]["total"] = MaxRows

\* C18: snapshots are never torn and respect the worker's update order: every
\* snapshot is the task's state after some prefix of its updates, each
\* update's fields all present or all absent, and successive snapshots of a
\* task never show current or percent decreasing.
\* Whole(st): the fields of st that one update writes together agree.
Whole(st) ==
    /\ ("started_at" \in DOMAIN st) <=> st["status"] # "idle"
    /\ ("eta_seconds" \in DOMAIN st) <=> st["current"] > 0
    /\ ("download_filename" \in DOMAIN st) <=> (st["status"] = "done" /\ st["total"] > 0)
    /\ ("finished_at" \in DOMAIN st) <=>
          (st["status"] = "error" \/ "download_filename" \in DOMAIN st)
    /\ st["current"] <= st["total"]
    /\ IF st["status"] = "done"
       THEN /\ st["percent"] = 100
            /\ st["current"] = st["total"]
            /\ st["total"] > 0 => st["eta_seconds"] = 0
       ELSE IF st["current"] > 0
       THEN /\ st["percent"] = Percent(st["current"], st["total"])
            /\ st["eta_seconds"] = Eta(st["current"], st["total"])
       ELSE st["percent"] = 0
    /\ (st["status"] = "running" /\ st["current"] > 0) =>
          st["message"] \in {MsgTranslating(st["current"], st["total"]), MsgCanceling}

Thm_C18 ==
    /\ [](\A t \in Ids : Present(t) => Whole(TASKS[t]))
    /\ [][\A t \in Ids :
            (Present(t) /\ t \in DOMAIN TASKS') =>
                /\ TASKS'[t]["current"] >= TASKS[t]["current"]
                /\ TASKS'[t]["percent"] >= TASKS[t]["percent"]]_vars
    /\ [][stream' # stream =>
            stream'.events[Len(stream'.events)] = Event(stream'.task, get_state(TASKS, stream'.task))]_vars
    /\ [](\A i, j \in 1..Len(stream.events) :
            (i < j /\ IsSnapshot(stream.events[i]) /\ IsSnapshot(stream.events[j])) =>
                stream.events[i]["data"]["percent"] <= stream.events[j]["data"]["percent"])

\* two successive snapshots of one task, half way and at the end
Wit_C18 ==
    /\ Len(stream.events) = 2
    /\ IsSnapshot(stream.events[1]) /\ stream.events[1]["data"]["percent"] = 50
    /\ IsSnapshot(stream.events[2]) /\ stream.events[2]["data"]["percent"] = 100
    /\ stream.events[2]["data"]["status"] = "running"

\* C19: every scratch directory acquired at submission is eventually released
\* on every exit path, also when the submission itself fails after the
\* directory was created (saving the upload fails, or the worker thread
\* cannot be started) and no worker ever runs.
CE_C19 == \A d \in Ids : (d \in dirs) ~> (d \notin dirs)

\* C20: under fair scheduling every created task eventually reaches a terminal
\* status and is afterwards eventually removed from the registry, and the
\* sweeper removes each task id exactly once.
CE_C20 ==
    /\ \A t \in Ids : Present(t) ~> Finished(t)
    /\ \A t \in Ids : Finished(t) ~> (~Present(t) /\ sweeper[t].removed = 1)
    /\ [](\A t \in Ids : sweeper[t].removed <= 1)

====
